---------------------------- MODULE Spec2Model ----------------------------
(***************************************************************************)
(* The coaching decision engine of ControlTray.tsx: screen-sharing         *)
(* detection (validator poll, settle timeout, start/stop edges), the       *)
(* speech tracker and the heartbeat interval, as a timed state machine.    *)
(*                                                                         *)
(* One time unit is one second (1000 ms of the source).  Every action is   *)
(* one callback of the single-threaded event loop together with the        *)
(* re-render and the effect re-runs that its state updates cause.          *)
(***************************************************************************)
EXTENDS Integers, Sequences, FiniteSets

(***************************************************************************)
(* Program constants (seconds, and volumes in thousandths).                *)
(***************************************************************************)
SettleDelay == 1
ValidationPeriod == 5
HeartbeatPeriod == 10
QuietWindow == 10
UserVolumeThreshold == 15
AIVolumeThreshold == 10
\* 1000 / 0.5 ms between two sampled frames.
FramePeriod == 2

(***************************************************************************)
(* Bounds of the model.                                                    *)
(***************************************************************************)
\* Date.now() when the component mounts; lastUserSpeechTime starts at 0, far
\* in the past of any real clock.
PageLoadTime == 11
\* Number of seconds explored after the mount.
Horizon == 11
\* start() calls of one capture source that may be in flight at once.
MaxPending == 1
\* Settle timeouts that may be pending at once.
MaxSettle == 2
\* Input events (clicks, volume flips, re-renders) in one run.
MaxEvents == 5
\* Runs of the frame sampling effect whose callbacks may be pending at once.
MaxSamplers == 2
\* Number of seconds explored after the mount under LiveSpec.
LiveHorizon == 21

Null == "null"
Sources == {"webcam", "screen"}
Games == {"EAFC"}
VolumeSamples == {0, 12, 20}
\* video.videoWidth and video.videoHeight of a sampled frame, in pixels.
VideoSizes == {0, 3, 8}

VARIABLES
    now,                \* Date.now(), in seconds
    videoStreams,       \* the two capture sources: isStreaming, stream
    pendingStarts,      \* start() promises in flight, per source
    activeVideoStream,  \* useState, ControlTray
    videoStream,        \* prop of ControlTray = useState of AppContent
    activeGame,         \* prop of ControlTray = useState of AppContent
    connected,          \* useLiveAPIContext().connected
    muted,              \* useState
    isAISpeaking,       \* useState
    isUserSpeaking,     \* useState
    lastUserSpeechTime, \* useState
    wasScreenSharing,   \* useState
    currentStateRef,    \* useRef read by the heartbeat
    closure,            \* values captured by the current run of the detection effect
    validationInterval, \* due times of the validator poll (a set: empty when cleared)
    tickInterval,       \* due times of the heartbeat (a set: empty when cleared)
    settleTimeouts,     \* pending settle timeouts, each with its captured values
    emitted,            \* history: the timer callback the last step ran, if any, and what
                        \* the step dispatched or sent, in order
    events,             \* number of input events so far (bounded by MaxEvents)
    startsThisEdge,     \* history: screenSharingStarted events since evaluate was last false
    startOpen,          \* history: a started event was dispatched after the last stopped one
    speechStartAt,      \* history: time of the latest not-speaking -> speaking sample
    speechStopAt,       \* history: time of the latest speaking -> not-speaking sample
    samplers,           \* runs of the frame sampling effect that have a callback pending
    sentFrames,         \* history: the frames the last step sent with sendRealtimeInput
    evaluated           \* history: the result of a lone validateScreenSharingState call

vars == <<now, videoStreams, pendingStarts, activeVideoStream, videoStream,
          activeGame, connected, muted, isAISpeaking, isUserSpeaking,
          lastUserSpeechTime, wasScreenSharing, currentStateRef, closure,
          validationInterval, tickInterval, settleTimeouts, emitted, events,
          startsThisEdge, startOpen, speechStartAt, speechStopAt, samplers,
          sentFrames, evaluated>>

\* A capture source after stop(), and after its start() resolved.
Off == [isStreaming |-> FALSE, stream |-> Null]
Handle(s) == IF s = "webcam" THEN "webcamStream" ELSE "screenStream"
Streaming(s) == [isStreaming |-> TRUE, stream |-> Handle(s)]

\* The React state and props of one render, as a record.
Cur ==
    [sources |-> videoStreams, activeVideoStream |-> activeVideoStream,
     videoStream |-> videoStream, activeGame |-> activeGame,
     connected |-> connected, muted |-> muted,
     isAISpeaking |-> isAISpeaking, isUserSpeaking |-> isUserSpeaking,
     lastUserSpeechTime |-> lastUserSpeechTime,
     wasScreenSharing |-> wasScreenSharing]

\* validateScreenSharingState that trusts isStreaming without looking at the
\* stream.
validateWithoutStreamCheck(c) ==
    \/ c.sources["screen"].isStreaming
    \/ c.sources["webcam"].isStreaming
    \/ c.videoStream # Null
    \/ c.activeVideoStream # Null

\* validateScreenSharingState over the values c that a render captured.
validateScreenSharingState(c) ==
    LET isScreenCaptureActive ==
            c.sources["screen"].isStreaming /\ c.sources["screen"].stream # Null
        isWebcamActive ==
            c.sources["webcam"].isStreaming /\ c.sources["webcam"].stream # Null
        hasActiveVideoStream ==
            c.videoStream # Null \/ c.activeVideoStream # Null
    IN  isScreenCaptureActive \/ isWebcamActive \/ hasActiveVideoStream

\* What the callbacks of the detection effect read of the render they were
\* created in.
Captured(n) ==
    [sources |-> n.sources, activeVideoStream |-> n.activeVideoStream,
     videoStream |-> n.videoStream, activeGame |-> n.activeGame,
     connected |-> n.connected, muted |-> n.muted,
     wasScreenSharing |-> n.wasScreenSharing]

\* client && connected && !muted, over captured values.
CanSend(c) == c.connected /\ ~c.muted

\* The stop-edge branch of the detection effect.
StopEdge(c, r) ==
    [r EXCEPT !.was = FALSE,
              !.out = r.out \o <<"screenSharingStopped">>
                            \o (IF CanSend(c) THEN <<"stopMsg">> ELSE <<>>)]

\* DetectEdges with a stop edge that does not ask whether the session was
\* recorded active.
DetectEdgesStopUnguarded(c, r) ==
    IF validateScreenSharingState(c) /\ ~c.wasScreenSharing
    THEN [r EXCEPT !.settle = Append(r.settle, [due |-> now + SettleDelay,
                                               c |-> Captured(c)])]
    ELSE IF ~validateScreenSharingState(c)
    THEN StopEdge(c, r)
    ELSE r

\* DetectEdges with a start edge that does not ask whether the session is
\* already recorded active.
DetectEdgesStartUnguarded(c, r) ==
    IF validateScreenSharingState(c)
    THEN [r EXCEPT !.settle = Append(r.settle, [due |-> now + SettleDelay,
                                               c |-> Captured(c)])]
    ELSE IF c.wasScreenSharing
    THEN StopEdge(c, r)
    ELSE r

\* DetectEdges without the stop edge: the end of a session is left to the
\* validator poll.
DetectEdgesNoStopEdge(c, r) ==
    IF validateScreenSharingState(c) /\ ~c.wasScreenSharing
    THEN [r EXCEPT !.settle = Append(r.settle, [due |-> now + SettleDelay,
                                               c |-> Captured(c)])]
    ELSE r

\* The edge detection of one run of the detection effect with captured
\* values c; r carries wasScreenSharing as set so far, the pending settle
\* timeouts and what was emitted so far.
DetectEdges(c, r) ==
    LET isCurrentlyScreenSharing == validateScreenSharingState(c) IN
    IF isCurrentlyScreenSharing /\ ~c.wasScreenSharing
    THEN [r EXCEPT !.settle = Append(r.settle, [due |-> now + SettleDelay,
                                               c |-> Captured(c)])]
    ELSE IF ~isCurrentlyScreenSharing /\ c.wasScreenSharing
    THEN StopEdge(c, r)
    ELSE r

\* The heartbeat interval is registered only while validation passes.
TickRegistered(c) ==
    IF validateScreenSharingState(c) THEN {now + HeartbeatPeriod} ELSE {}

\* A render with values n whose detection effect re-runs (the cleanup clears
\* both intervals, the body registers them again), followed by the renders
\* that the effect's own setWasScreenSharing causes.
RECURSIVE RunEffects(_, _, _)
RunEffects(n, settle, out) ==
    LET d == DetectEdges(n, [was |-> n.wasScreenSharing, settle |-> settle, out |-> out])
    IN  IF d.was = n.wasScreenSharing
        THEN [n |-> n, settle |-> d.settle, out |-> d.out,
              validation |-> {now + ValidationPeriod},
              tick |-> TickRegistered(n)]
        ELSE RunEffects([n EXCEPT !.wasScreenSharing = d.was], d.settle, d.out)

\* Deps without the speech state: the detection effect no longer re-runs
\* when isAISpeaking, isUserSpeaking or lastUserSpeechTime change.
DepsWithoutSpeechState(n) ==
    [n EXCEPT !.isAISpeaking = FALSE, !.isUserSpeaking = FALSE,
              !.lastUserSpeechTime = 0]

\* The dependency list of the detection effect, by value.
Deps(n) == n

\* History: number of started events in a sequence of emissions.
RECURSIVE CountOf(_, _)
CountOf(kind, s) ==
    IF s = <<>> THEN 0
    ELSE (IF Head(s) = kind THEN 1 ELSE 0) + CountOf(kind, Tail(s))

Min(a, b) == IF a < b THEN a ELSE b

\* History: whether a started event is open after the emissions s.
RECURSIVE OpenAfter(_, _)
OpenAfter(open, s) ==
    IF s = <<>> THEN open
    ELSE OpenAfter(IF Head(s) = "screenSharingStarted" THEN TRUE
                   ELSE IF Head(s) = "screenSharingStopped" THEN FALSE
                   ELSE open, Tail(s))

\* The end of every callback: the state updates n are committed, the
\* component re-renders, currentStateRef is refreshed and the detection
\* effect re-runs if one of its dependencies changed (or if force says
\* that a dependency object was recreated).  validation and tick are the
\* intervals as the callback left them.
Commit(cost, n, settle, out, validation, tick, force) ==
    LET rerun == force \/ Deps(n) # Deps(Cur) IN
    \E r \in {IF rerun THEN RunEffects(n, settle, out)
              ELSE [n |-> n, settle |-> settle, out |-> out,
                    validation |-> validation, tick |-> tick]} :
        /\ Len(r.settle) <= MaxSettle
        /\ videoStreams' = r.n.sources
        /\ activeVideoStream' = r.n.activeVideoStream
        /\ videoStream' = r.n.videoStream
        /\ activeGame' = r.n.activeGame
        /\ connected' = r.n.connected
        /\ muted' = r.n.muted
        /\ isAISpeaking' = r.n.isAISpeaking
        /\ isUserSpeaking' = r.n.isUserSpeaking
        /\ lastUserSpeechTime' = r.n.lastUserSpeechTime
        /\ wasScreenSharing' = r.n.wasScreenSharing
        /\ currentStateRef' =
              [connected |-> r.n.connected, activeGame |-> r.n.activeGame,
               videoStream |-> r.n.videoStream,
               activeVideoStream |-> r.n.activeVideoStream,
               isAISpeaking |-> r.n.isAISpeaking,
               isUserSpeaking |-> r.n.isUserSpeaking,
               lastUserSpeechTime |-> r.n.lastUserSpeechTime]
        /\ closure' = IF rerun THEN Captured(r.n) ELSE closure
        /\ validationInterval' = r.validation
        /\ tickInterval' = r.tick
        /\ settleTimeouts' = r.settle
        /\ emitted' = r.out
        /\ events' = (IF r.n = Cur /\ ~force THEN events ELSE events + cost)
        /\ events' <= MaxEvents
        /\ startsThisEdge' =
              IF validateScreenSharingState(r.n)
              THEN Min(2, startsThisEdge + CountOf("screenSharingStarted", r.out))
              ELSE 0
        /\ startOpen' = OpenAfter(startOpen, r.out)

Init ==
    /\ now = PageLoadTime
    /\ videoStreams = [s \in Sources |-> Off]
    /\ pendingStarts = [s \in Sources |-> 0]
    /\ activeVideoStream = Null
    /\ videoStream = Null
    /\ activeGame = Null
    /\ connected = FALSE
    /\ muted = FALSE
    /\ isAISpeaking = FALSE
    /\ isUserSpeaking = FALSE
    /\ lastUserSpeechTime = 0
    /\ wasScreenSharing = FALSE
    /\ currentStateRef =
          [connected |-> FALSE, activeGame |-> Null, videoStream |-> Null,
           activeVideoStream |-> Null, isAISpeaking |-> FALSE,
           isUserSpeaking |-> FALSE, lastUserSpeechTime |-> 0]
    /\ closure = Captured(Cur)
    /\ validationInterval = {PageLoadTime + ValidationPeriod}
    /\ tickInterval = {}
    /\ settleTimeouts = <<>>
    /\ emitted = <<>>
    /\ events = 0
    /\ startsThisEdge = 0
    /\ startOpen = FALSE
    /\ speechStartAt = 0
    /\ speechStopAt = 0
    /\ samplers = <<>>
    /\ sentFrames = <<>>
    /\ evaluated = <<>>

(***************************************************************************)
(* Timers.                                                                 *)
(***************************************************************************)
Due(timer) == \E t \in timer : t <= now

\* SettleCallback without setWasScreenSharing(true).
SettleCallbackNoCommit(c, was) ==
    IF validateScreenSharingState(c)
    THEN [was |-> was,
          out |-> <<"screenSharingStarted">>
                  \o (IF CanSend(c) THEN <<"startMsg">> ELSE <<>>)]
    ELSE [was |-> was, out |-> <<>>]

\* The callback of the settle setTimeout, over the values c captured when
\* it was scheduled: what it sets wasScreenSharing to and what it emits.
SettleCallback(c, was) ==
    IF validateScreenSharingState(c)
    THEN [was |-> TRUE,
          out |-> <<"screenSharingStarted">>
                  \o (IF CanSend(c) THEN <<"startMsg">> ELSE <<>>)]
    ELSE [was |-> was, out |-> <<>>]

SettleTimeoutFires ==
    /\ settleTimeouts # <<>>
    /\ Head(settleTimeouts).due <= now
    /\ LET cb == SettleCallback(Head(settleTimeouts).c, wasScreenSharing)
       IN  Commit(0, [Cur EXCEPT !.wasScreenSharing = cb.was],
                  Tail(settleTimeouts), <<"settleTimeout">> \o cb.out, validationInterval,
                  tickInterval, FALSE)
    /\ UNCHANGED <<now, pendingStarts, speechStartAt, speechStopAt>>

\* ForcedStopCondition without the wasScreenSharing guard.
ForcedStopUnguarded(c) == ~validateScreenSharingState(c)

\* ForcedStopCondition that does not look at the validation result.
ForcedStopWithoutValidation(c) == c.wasScreenSharing

\* The forced-stop condition of the validator poll.
ForcedStopCondition(c) ==
    c.wasScreenSharing /\ ~validateScreenSharingState(c)

\* The callback of validationInterval over its captured values c: the
\* state n it leaves and what it emits.
ValidationCallback(c, n) ==
    IF ForcedStopCondition(c)
    THEN [n |-> [n EXCEPT !.wasScreenSharing = FALSE,
                          !.sources = [s \in Sources |->
                               IF c.sources[s].isStreaming THEN Off
                               ELSE n.sources[s]]],
          out |-> <<"screenSharingStopped">>
                  \o (IF CanSend(c) THEN <<"forcedStopMsg">> ELSE <<>>)]
    ELSE [n |-> n, out |-> <<>>]

ValidationIntervalFires ==
    /\ Due(validationInterval)
    /\ LET cb == ValidationCallback(closure, Cur)
       IN  Commit(0, cb.n, settleTimeouts, <<"validationInterval">> \o cb.out,
                  {t + ValidationPeriod : t \in validationInterval},
                  tickInterval, FALSE)
    /\ UNCHANGED <<now, pendingStarts, speechStartAt, speechStopAt>>

\* isSomeoneCurrentlySpeaking that forgets the AI.
isOnlyUserSpeaking(current) == current.isUserSpeaking

\* shouldAllowSystemCommand that admits the edge of the quiet window.
shouldAllowAtWindowEdge(current) ==
    now - current.lastUserSpeechTime >= QuietWindow

\* The speech gate of the heartbeat, read through currentStateRef.
isSomeoneCurrentlySpeaking(current) ==
    current.isAISpeaking \/ current.isUserSpeaking

shouldAllowSystemCommand(current) ==
    now - current.lastUserSpeechTime > QuietWindow

\* HeartbeatCallback that returns unless both sources stream.
HeartbeatCallbackNeedsBothSources(c, current) ==
    IF ~c.sources["screen"].isStreaming \/ ~c.sources["webcam"].isStreaming
    THEN <<>>
    ELSE IF ~isSomeoneCurrentlySpeaking(current) /\ shouldAllowSystemCommand(current)
    THEN <<"heartbeat">>
    ELSE <<>>

\* The callback of tickInterval: c are its captured values, current is
\* currentStateRef.current.
HeartbeatCallback(c, current) ==
    IF ~c.sources["screen"].isStreaming /\ ~c.sources["webcam"].isStreaming
    THEN <<>>
    ELSE IF ~isSomeoneCurrentlySpeaking(current) /\ shouldAllowSystemCommand(current)
    THEN <<"heartbeat">>
    ELSE <<>>

TickIntervalFires ==
    /\ Due(tickInterval)
    /\ Commit(0, Cur, settleTimeouts,
              <<"tickInterval">> \o HeartbeatCallback(closure, currentStateRef),
              validationInterval,
              {t + HeartbeatPeriod : t \in tickInterval}, FALSE)
    /\ UNCHANGED <<now, pendingStarts, speechStartAt, speechStopAt>>

\* Time passes only when every due timer has fired.
AdvanceTime ==
    /\ now < PageLoadTime + Horizon
    /\ ~Due(validationInterval)
    /\ ~Due(tickInterval)
    /\ \A i \in 1..Len(settleTimeouts) : settleTimeouts[i].due > now
    /\ now' = now + 1
    /\ emitted' = <<>>
    /\ UNCHANGED <<videoStreams, pendingStarts, activeVideoStream, videoStream,
                   activeGame, connected, muted, isAISpeaking, isUserSpeaking,
                   lastUserSpeechTime, wasScreenSharing, currentStateRef,
                   closure, validationInterval, tickInterval, settleTimeouts,
                   events, startsThisEdge, startOpen, speechStartAt, speechStopAt>>

(***************************************************************************)
(* Speech activity.                                                        *)
(***************************************************************************)
\* TrackUserSpeech that clears the timestamp when the user stops speaking.
TrackUserSpeechClearsOnStop(n, v) ==
    LET currentlyUserSpeaking == v > UserVolumeThreshold IN
    IF currentlyUserSpeaking # n.isUserSpeaking
    THEN [n EXCEPT !.isUserSpeaking = currentlyUserSpeaking,
                   !.lastUserSpeechTime = IF currentlyUserSpeaking THEN now ELSE 0]
    ELSE n

\* TrackUserSpeech that stamps the time on both transitions.
TrackUserSpeechStampsBothEdges(n, v) ==
    LET currentlyUserSpeaking == v > UserVolumeThreshold IN
    IF currentlyUserSpeaking # n.isUserSpeaking
    THEN [n EXCEPT !.isUserSpeaking = currentlyUserSpeaking,
                   !.lastUserSpeechTime = now]
    ELSE n

\* The user speech effect for a new input volume v.
TrackUserSpeech(n, v) ==
    LET currentlyUserSpeaking == v > UserVolumeThreshold IN
    IF currentlyUserSpeaking # n.isUserSpeaking
    THEN [n EXCEPT !.isUserSpeaking = currentlyUserSpeaking,
                   !.lastUserSpeechTime = IF currentlyUserSpeaking THEN now ELSE @]
    ELSE n

\* A recorder that keeps running while muted.
RecorderIgnoresMute == connected

\* The audio recorder delivers volume samples while connected and not muted.
RecorderRunning == connected /\ ~muted

InputVolume(v) ==
    /\ RecorderRunning
    /\ Commit(1, TrackUserSpeech(Cur, v), settleTimeouts, <<>>,
              validationInterval, tickInterval, FALSE)
    /\ speechStartAt' = IF v > UserVolumeThreshold /\ ~isUserSpeaking
                        THEN now ELSE speechStartAt
    /\ speechStopAt' = IF v <= UserVolumeThreshold /\ isUserSpeaking
                       THEN now ELSE speechStopAt
    /\ UNCHANGED <<now, pendingStarts>>

\* The AI speaking effect for a new output volume v.
TrackAISpeech(n, v) == [n EXCEPT !.isAISpeaking = v > AIVolumeThreshold]

OutputVolume(v) ==
    /\ Commit(1, TrackAISpeech(Cur, v), settleTimeouts, <<>>,
              validationInterval, tickInterval, FALSE)
    /\ UNCHANGED <<now, pendingStarts, speechStartAt, speechStopAt>>

(***************************************************************************)
(* The user's controls.                                                    *)
(***************************************************************************)
ToggleMute ==
    /\ Commit(1, [Cur EXCEPT !.muted = ~muted], settleTimeouts, <<>>,
              validationInterval, tickInterval, FALSE)
    /\ UNCHANGED <<now, pendingStarts, speechStartAt, speechStopAt>>

ToggleConnection ==
    /\ Commit(1, [Cur EXCEPT !.connected = ~connected],
              settleTimeouts, <<>>, validationInterval, tickInterval, FALSE)
    /\ UNCHANGED <<now, pendingStarts, speechStartAt, speechStopAt>>

\* The game cards are shown while connected with no video stream.
handleGameSelect(g) ==
    /\ connected /\ videoStream = Null
    /\ Commit(1, [Cur EXCEPT !.activeGame = g], settleTimeouts, <<>>,
              validationInterval, tickInterval, FALSE)
    /\ UNCHANGED <<now, pendingStarts, speechStartAt, speechStopAt>>

\* stop() of every capture source but `next`.
StopOthers(sources, next) ==
    [s \in Sources |-> IF s = next THEN sources[s] ELSE Off]

\* A start button that is enabled with no game selected.
ClickStartWithoutGame(next) ==
    /\ ~videoStreams[next].isStreaming
    /\ pendingStarts[next] < MaxPending
    /\ pendingStarts' = [pendingStarts EXCEPT ![next] = @ + 1]
    /\ emitted' = <<>>
    /\ events < MaxEvents
    /\ events' = events + 1
    /\ UNCHANGED <<now, videoStreams, activeVideoStream, videoStream,
                   activeGame, connected, muted, isAISpeaking, isUserSpeaking,
                   lastUserSpeechTime, wasScreenSharing, currentStateRef,
                   closure, validationInterval, tickInterval, settleTimeouts,
                   startsThisEdge, startOpen, speechStartAt, speechStopAt>>

\* A start button: changeStreams(next) up to its await.
ClickStart(next) ==
    /\ activeGame # Null
    /\ ~videoStreams[next].isStreaming
    /\ pendingStarts[next] < MaxPending
    /\ pendingStarts' = [pendingStarts EXCEPT ![next] = @ + 1]
    /\ emitted' = <<>>
    /\ events < MaxEvents
    /\ events' = events + 1
    /\ UNCHANGED <<now, videoStreams, activeVideoStream, videoStream,
                   activeGame, connected, muted, isAISpeaking, isUserSpeaking,
                   lastUserSpeechTime, wasScreenSharing, currentStateRef,
                   closure, validationInterval, tickInterval, settleTimeouts,
                   startsThisEdge, startOpen, speechStartAt, speechStopAt>>

\* changeStreams(next) after next.start() resolved.
changeStreamsResolved(n, next) ==
    [n EXCEPT !.sources = StopOthers(
                  [n.sources EXCEPT ![next] = Streaming(next)], next),
              !.activeVideoStream = Handle(next),
              !.videoStream = Handle(next)]

StartResolves(next) ==
    /\ pendingStarts[next] > 0
    /\ pendingStarts' = [pendingStarts EXCEPT ![next] = @ - 1]
    /\ Commit(0, changeStreamsResolved(Cur, next),
              settleTimeouts, <<>>, validationInterval, tickInterval, FALSE)
    /\ UNCHANGED <<now, speechStartAt, speechStopAt>>

\* changeStreams(next) after next.start() rejected: the catch, then the
\* stop() of the other sources.
changeStreamsRejected(n, next) ==
    [n EXCEPT !.sources = StopOthers(n.sources, next)]

StartRejects(next) ==
    /\ pendingStarts[next] > 0
    /\ pendingStarts' = [pendingStarts EXCEPT ![next] = @ - 1]
    /\ Commit(0, changeStreamsRejected(Cur, next),
              settleTimeouts, <<>>, validationInterval, tickInterval, FALSE)
    /\ UNCHANGED <<now, speechStartAt, speechStopAt>>

\* changeStreams() of a stop button.
changeStreamsStop(n) ==
    [n EXCEPT !.sources = [s \in Sources |-> Off],
              !.activeVideoStream = Null,
              !.videoStream = Null]

ClickStop ==
    /\ \E s \in Sources : videoStreams[s].isStreaming
    /\ Commit(1, changeStreamsStop(Cur), settleTimeouts, <<>>,
              validationInterval, tickInterval, FALSE)
    /\ UNCHANGED <<now, pendingStarts, speechStartAt, speechStopAt>>

\* The handle of a streaming source dies without a stop event.
HandleDied(s) ==
    /\ videoStreams[s].isStreaming
    /\ videoStreams[s].stream # Null
    /\ Commit(1,
              [Cur EXCEPT !.sources = [videoStreams EXCEPT ![s].stream = Null]],
              settleTimeouts, <<>>, validationInterval, tickInterval, FALSE)
    /\ UNCHANGED <<now, pendingStarts, speechStartAt, speechStopAt>>

\* A render in which a dependency object of the detection effect was
\* recreated with the same values: the effect re-runs.
Rerender ==
    /\ Commit(1, Cur, settleTimeouts, <<>>, validationInterval,
              tickInterval, TRUE)
    /\ UNCHANGED <<now, pendingStarts, speechStartAt, speechStopAt>>

\* The frame sampling effect is left out of Spec: it reads connected and
\* activeVideoStream and writes nothing that the other effects read.
SamplerOff == UNCHANGED <<samplers, sentFrames, evaluated>>

Next ==
    \/ AdvanceTime /\ SamplerOff
    \/ SettleTimeoutFires /\ SamplerOff
    \/ ValidationIntervalFires /\ SamplerOff
    \/ TickIntervalFires /\ SamplerOff
    \/ \E v \in VolumeSamples : InputVolume(v) /\ SamplerOff
    \/ \E v \in VolumeSamples : OutputVolume(v) /\ SamplerOff
    \/ ToggleMute /\ SamplerOff
    \/ ToggleConnection /\ SamplerOff
    \/ \E g \in Games : handleGameSelect(g) /\ SamplerOff
    \/ \E s \in Sources : ClickStart(s) /\ SamplerOff
    \/ \E s \in Sources : StartResolves(s) /\ SamplerOff
    \/ \E s \in Sources : StartRejects(s) /\ SamplerOff
    \/ ClickStop /\ SamplerOff
    \/ \E s \in Sources : HandleDied(s) /\ SamplerOff
    \/ Rerender /\ SamplerOff

Spec == Init /\ [][Next]_vars

(***************************************************************************)
(* The frame sampler.  SamplerSpec is the same component with the frame    *)
(* sampling effect, driven by the inputs that govern it: the connection,   *)
(* the game cards and the stream buttons.                                  *)
(***************************************************************************)
\* canvas.width = video.videoWidth * 0.25: a canvas dimension is an
\* integer, the fraction is dropped.
CanvasSize(v) == v \div 4

\* What sendVideoFrame forwards for a video of w x h pixels.
SampledFrame(w, h) ==
    LET width == CanvasSize(w)
        height == CanvasSize(h)
    IN  IF width + height > 0
        THEN <<[width |-> width, height |-> height]>>
        ELSE <<>>

\* clearTimeout(timeoutId) reaches the pending timeout of the run that is
\* torn down; a run whose animation frame has not come yet holds
\* timeoutId = -1 and keeps its callback, as do the runs torn down before.
SurvivesCleanup(r) == r.cleaned \/ r.pc = "raf"

\* The cleanup of the frame sampling effect.
SamplerCleanup(s) ==
    LET kept == SelectSeq(s, SurvivesCleanup)
    IN  [i \in 1..Len(kept) |-> [kept[i] EXCEPT !.cleaned = TRUE]]

\* The body of the frame sampling effect in a render with the values conn
\* and stream.
SamplerStart(s, conn, stream) ==
    IF conn /\ stream # Null
    THEN Append(s, [pc |-> "raf", due |-> now, connected |-> conn,
                    cleaned |-> FALSE])
    ELSE s

\* The frame sampling effect after a step of another handler: it re-runs
\* when connected or activeVideoStream changed.
FrameSamplerEffect ==
    /\ samplers' =
          IF connected' # connected \/ activeVideoStream' # activeVideoStream
          THEN SamplerStart(SamplerCleanup(samplers), connected',
                            activeVideoStream')
          ELSE samplers
    /\ Len(samplers') <= MaxSamplers
    /\ sentFrames' = <<>>
    /\ UNCHANGED evaluated

\* s without its i-th element.
RemoveAt(s, i) == SubSeq(s, 1, i - 1) \o SubSeq(s, i + 1, Len(s))

\* sendVideoFrame of the i-th pending run, the video showing w x h pixels:
\* a video with no srcObject or no metadata yet reports 0 x 0.
sendVideoFrame(i, w, h) ==
    /\ (w = 0) <=> (h = 0)
    /\ activeVideoStream = Null => w = 0
    /\ sentFrames' = SampledFrame(w, h)
    /\ samplers' =
          IF samplers[i].connected
          THEN [samplers EXCEPT ![i].pc = "timeout",
                                ![i].due = now + FramePeriod]
          ELSE RemoveAt(samplers, i)
    /\ emitted' = <<>>
    /\ UNCHANGED <<now, videoStreams, pendingStarts, activeVideoStream,
                   videoStream, activeGame, connected, muted, isAISpeaking,
                   isUserSpeaking, lastUserSpeechTime, wasScreenSharing,
                   currentStateRef, closure, validationInterval,
                   tickInterval, settleTimeouts, events, startsThisEdge,
                   startOpen, speechStartAt, speechStopAt, evaluated>>

\* The callback of requestAnimationFrame.
AnimationFrame(i, w, h) ==
    /\ samplers[i].pc = "raf"
    /\ sendVideoFrame(i, w, h)

\* The callback of the sampling setTimeout.
FrameTimeoutFires(i, w, h) ==
    /\ samplers[i].pc = "timeout"
    /\ samplers[i].due <= now
    /\ sendVideoFrame(i, w, h)

\* No sampling callback is due.
SamplerQuiet ==
    \A i \in 1..Len(samplers) :
        samplers[i].pc = "timeout" /\ samplers[i].due > now

SamplerTimePasses ==
    /\ AdvanceTime
    /\ SamplerQuiet
    /\ sentFrames' = <<>>
    /\ UNCHANGED <<samplers, evaluated>>

SamplerNext ==
    \/ SamplerTimePasses
    \/ SettleTimeoutFires /\ FrameSamplerEffect
    \/ ValidationIntervalFires /\ FrameSamplerEffect
    \/ TickIntervalFires /\ FrameSamplerEffect
    \/ ToggleConnection /\ FrameSamplerEffect
    \/ \E g \in Games : handleGameSelect(g) /\ FrameSamplerEffect
    \/ \E s \in Sources : ClickStart(s) /\ FrameSamplerEffect
    \/ \E s \in Sources : StartResolves(s) /\ FrameSamplerEffect
    \/ \E s \in Sources : StartRejects(s) /\ FrameSamplerEffect
    \/ ClickStop /\ FrameSamplerEffect
    \/ \E i \in 1..Len(samplers) : \E w, h \in VideoSizes :
          AnimationFrame(i, w, h)
    \/ \E i \in 1..Len(samplers) : \E w, h \in VideoSizes :
          FrameTimeoutFires(i, w, h)

SamplerSpec == Init /\ [][SamplerNext]_vars

(***************************************************************************)
(* validateScreenSharingState alone, over every combination of its inputs. *)
(***************************************************************************)
StreamHandles == {Null} \cup {Handle(s) : s \in Sources}

ValidateInit ==
    /\ videoStreams \in [Sources -> [isStreaming : BOOLEAN, stream : StreamHandles]]
    /\ videoStream \in StreamHandles
    /\ activeVideoStream \in StreamHandles
    /\ now = PageLoadTime
    /\ pendingStarts = [s \in Sources |-> 0]
    /\ activeGame = Null
    /\ connected = FALSE
    /\ muted = FALSE
    /\ isAISpeaking = FALSE
    /\ isUserSpeaking = FALSE
    /\ lastUserSpeechTime = 0
    /\ wasScreenSharing = FALSE
    /\ currentStateRef =
          [connected |-> FALSE, activeGame |-> Null, videoStream |-> videoStream,
           activeVideoStream |-> activeVideoStream, isAISpeaking |-> FALSE,
           isUserSpeaking |-> FALSE, lastUserSpeechTime |-> 0]
    /\ closure = Captured(Cur)
    /\ validationInterval = {}
    /\ tickInterval = {}
    /\ settleTimeouts = <<>>
    /\ emitted = <<>>
    /\ events = 0
    /\ startsThisEdge = 0
    /\ startOpen = FALSE
    /\ speechStartAt = 0
    /\ speechStopAt = 0
    /\ samplers = <<>>
    /\ sentFrames = <<>>
    /\ evaluated = <<>>

\* One call of validateScreenSharingState: it returns a value and assigns
\* nothing.
Evaluate ==
    /\ evaluated = <<>>
    /\ evaluated' = <<validateScreenSharingState(Cur)>>
    /\ UNCHANGED <<now, videoStreams, pendingStarts, activeVideoStream,
                   videoStream, activeGame, connected, muted, isAISpeaking,
                   isUserSpeaking, lastUserSpeechTime, wasScreenSharing,
                   currentStateRef, closure, validationInterval,
                   tickInterval, settleTimeouts, emitted, events,
                   startsThisEdge, startOpen, speechStartAt, speechStopAt, samplers,
                   sentFrames>>

ValidateSpec == ValidateInit /\ [][Evaluate]_vars

(***************************************************************************)
(* The capture sources as inputs.  The component only reads what the two   *)
(* capture hooks report; ScenarioSpec lets a source report any combination *)
(* of isStreaming and stream, as the scenarios about handles that died     *)
(* pose it.                                                                *)
(***************************************************************************)
SourceReports(s, st) ==
    /\ st # videoStreams[s]
    /\ Commit(1, [Cur EXCEPT !.sources = [videoStreams EXCEPT ![s] = st]],
              settleTimeouts, <<>>, validationInterval, tickInterval, FALSE)
    /\ UNCHANGED <<now, pendingStarts, speechStartAt, speechStopAt>>

ScenarioNext ==
    \/ AdvanceTime /\ SamplerOff
    \/ SettleTimeoutFires /\ SamplerOff
    \/ ValidationIntervalFires /\ SamplerOff
    \/ TickIntervalFires /\ SamplerOff
    \/ ToggleConnection /\ SamplerOff
    \/ \E s \in Sources :
          \E st \in [isStreaming : BOOLEAN, stream : {Null, Handle(s)}] :
              SourceReports(s, st) /\ SamplerOff

ScenarioSpec == Init /\ [][ScenarioNext]_vars

(***************************************************************************)
(* Liveness.  LiveSpec runs the component over two heartbeat periods, with *)
(* the inputs that start a session and the volume samples; the event loop  *)
(* lets time pass and runs every timer callback that is due.               *)
(***************************************************************************)
LiveTimePasses ==
    /\ now < PageLoadTime + LiveHorizon
    /\ ~Due(validationInterval)
    /\ ~Due(tickInterval)
    /\ \A i \in 1..Len(settleTimeouts) : settleTimeouts[i].due > now
    /\ now' = now + 1
    /\ emitted' = <<>>
    /\ UNCHANGED <<videoStreams, pendingStarts, activeVideoStream, videoStream,
                   activeGame, connected, muted, isAISpeaking, isUserSpeaking,
                   lastUserSpeechTime, wasScreenSharing, currentStateRef,
                   closure, validationInterval, tickInterval, settleTimeouts,
                   events, startsThisEdge, startOpen, speechStartAt,
                   speechStopAt, samplers, sentFrames, evaluated>>

LiveSettle == SettleTimeoutFires /\ SamplerOff
LiveValidation == ValidationIntervalFires /\ SamplerOff
LiveTick == TickIntervalFires /\ SamplerOff

LiveNext ==
    \/ LiveTimePasses
    \/ LiveSettle
    \/ LiveValidation
    \/ LiveTick
    \/ \E v \in VolumeSamples : InputVolume(v) /\ SamplerOff
    \/ \E v \in VolumeSamples : OutputVolume(v) /\ SamplerOff
    \/ ToggleConnection /\ SamplerOff
    \/ \E g \in Games : handleGameSelect(g) /\ SamplerOff
    \/ \E s \in Sources : ClickStart(s) /\ SamplerOff
    \/ \E s \in Sources : StartResolves(s) /\ SamplerOff

LiveSpec ==
    /\ Init
    /\ [][LiveNext]_vars
    /\ WF_vars(LiveTimePasses)
    /\ WF_vars(LiveSettle)
    /\ WF_vars(LiveValidation)
    /\ WF_vars(LiveTick)

(***************************************************************************)
(* Properties.                                                             *)
(***************************************************************************)
Emitted(kind) == \E i \in 1..Len(emitted) : emitted[i] = kind
EmittedNext(kind) == \E i \in 1..Len(emitted') : emitted'[i] = kind

\* The callbacks of both intervals always hold the values of the latest
\* render: every value they capture is a dependency of the effect.
IntervalClosureIsCurrent ==
    /\ closure = Captured(Cur)
    /\ currentStateRef.isAISpeaking = isAISpeaking
    /\ currentStateRef.isUserSpeaking = isUserSpeaking
    /\ currentStateRef.lastUserSpeechTime = lastUserSpeechTime

\* C1: a false->true edge of validateScreenSharingState that survives the
\* settle delay dispatches screenSharingStarted exactly once: never twice
\* while validateScreenSharingState stays true.
C1_OneStartedPerEdge == startsThisEdge <= 1

\* C2: when validateScreenSharingState turned true and reverted to false
\* before the settle delay elapsed, the settle re-check sees the reverted
\* inputs and dispatches no screenSharingStarted: a started event is
\* dispatched only while validateScreenSharingState holds of the current
\* inputs.
C2_RevertedFlipNeverStarts ==
    Emitted("screenSharingStarted") => validateScreenSharingState(Cur)

\* The session was recorded active during the step (before it, or by a
\* started event of the step itself) and is not after it.
SessionEnded ==
    /\ wasScreenSharing \/ EmittedNext("screenSharingStarted")
    /\ ~wasScreenSharing'

StopMessages(s) == CountOf("stopMsg", s) + CountOf("forcedStopMsg", s)

\* C3: every true->false edge of the session dispatches screenSharingStopped
\* exactly once (with at most one stop message), no step dispatches it
\* without such an edge, and the stop edge and the forced stop of the poll
\* never both notify.
C3_OneStoppedPerEdge ==
    [][/\ CountOf("screenSharingStopped", emitted') = (IF SessionEnded THEN 1 ELSE 0)
       /\ StopMessages(emitted') <= CountOf("screenSharingStopped", emitted')]_vars

\* A stop edge notified once, with its message.
C3_Witness ==
    /\ Emitted("screenSharingStopped")
    /\ Emitted("stopMsg")
    /\ ~wasScreenSharing

\* C4: the heartbeat sends no coaching message while wasScreenSharing is
\* false, the settle window and the time after a stop edge included.
C4_NoHeartbeatWhileInactive == Emitted("heartbeat") => wasScreenSharing

\* A heartbeat sent while the session is active.
C4_Witness == Emitted("heartbeat") /\ wasScreenSharing

\* C5: no coaching message is sent at a time t with t - s <= QuietWindow,
\* s being the time of the latest user speech start.
C5_QuietWindowAfterSpeechStart ==
    Emitted("heartbeat") => now - speechStartAt > QuietWindow

\* A heartbeat sent after the user has spoken.
C5_Witness == Emitted("heartbeat") /\ speechStartAt >= PageLoadTime

\* C6: a coaching message is never sent at a tick at which the user or the
\* AI is speaking: the gate reads the latest speech state.
C6_GateReadsLatestSpeechState ==
    Emitted("heartbeat") => ~isUserSpeaking /\ ~isAISpeaking

\* A tick of an active session with a streaming source, at which somebody
\* speaks.
C6_Witness ==
    /\ Emitted("tickInterval")
    /\ wasScreenSharing
    /\ \E s \in Sources : videoStreams[s].isStreaming
    /\ isUserSpeaking \/ isAISpeaking
    /\ now - lastUserSpeechTime > QuietWindow

\* wasScreenSharing agrees with validateScreenSharingState.
Steady == wasScreenSharing <=> validateScreenSharingState(Cur)

\* C7: in a steady state, a validator poll or a re-run of the detection
\* effect with unchanged inputs dispatches and sends nothing, schedules no
\* settle timeout and leaves wasScreenSharing as it is.
C7_PollingIsIdempotent ==
    [][(Steady /\ (ValidationIntervalFires \/ Rerender)) =>
          /\ ~EmittedNext("screenSharingStarted")
          /\ ~EmittedNext("screenSharingStopped")
          /\ ~EmittedNext("startMsg")
          /\ StopMessages(emitted') = 0
          /\ settleTimeouts' = settleTimeouts
          /\ wasScreenSharing' = wasScreenSharing]_vars

\* A poll that found the session active and left it so.
C7_Witness ==
    /\ emitted = <<"validationInterval">>
    /\ wasScreenSharing
    /\ validateScreenSharingState(Cur)

\* Every stopped event of the emissions s follows a started event with no
\* stopped event in between; open says whether one is open before s.
RECURSIVE StopsMatched(_, _)
StopsMatched(open, s) ==
    IF s = <<>> THEN TRUE
    ELSE IF Head(s) = "screenSharingStopped"
    THEN open /\ StopsMatched(FALSE, Tail(s))
    ELSE StopsMatched(open \/ Head(s) = "screenSharingStarted", Tail(s))

NoSourceStreaming == \A s \in Sources : ~videoStreams[s].isStreaming

\* C8: screenSharingStopped is dispatched only after a screenSharingStarted
\* with no stopped event in between, and the stop() calls made while no
\* source is streaming dispatch and send nothing.
C8_NoSpuriousStop ==
    [][/\ StopsMatched(startOpen, emitted')
       /\ (NoSourceStreaming /\ \E s \in Sources : StartRejects(s))
             => emitted' = <<>>]_vars

\* A stopped event that closes a started event of an earlier step.
C8_Witness ==
    /\ Emitted("screenSharingStopped")
    /\ ~Emitted("screenSharingStarted")
    /\ ~startOpen

\* The session is recorded active (before the step, or by a started event of
\* the step) and validateScreenSharingState is false of the inputs the step
\* leaves.
ActiveAndEvaluateFalse ==
    /\ wasScreenSharing \/ EmittedNext("screenSharingStarted")
    /\ ~validateScreenSharingState(Cur)'

C10_TransitionMessageOnlyWhenConnectedUnmuted ==
    (Emitted("startMsg") \/ Emitted("stopMsg") \/ Emitted("forcedStopMsg"))
        => connected /\ ~muted

\* C11: a video frame is sent only while the session is connected and the
\* active stream is set, also when the disconnect or the null stream came
\* after the animation frame was requested and before its callback ran; and
\* at most one sampling loop has a callback pending.
C11_SamplerStopsWithItsInputs ==
    /\ sentFrames # <<>> => connected /\ activeVideoStream # Null
    /\ Len(samplers) <= 1

\* C12: every frame forwarded to sendRealtimeInput has a width and a height
\* greater than zero.
C12_NoDegenerateFrame ==
    \A i \in 1..Len(sentFrames) :
        sentFrames[i].width > 0 /\ sentFrames[i].height > 0

\* A capture source that reports isStreaming with a stream that is set.
SourceActive(s) == videoStreams[s].isStreaming /\ videoStreams[s].stream # Null

\* C13: validateScreenSharingState returns true iff at least one capture
\* source has isStreaming true and a non-null stream, or videoStream or
\* activeVideoStream is non-null.
C13_EvaluateIffSourceOrHandle ==
    evaluated # <<>> =>
        (evaluated[1] <=> \/ \E s \in Sources : SourceActive(s)
                          \/ videoStream # Null
                          \/ activeVideoStream # Null)

\* A call that returned false of a source marked streaming whose stream is
\* null.
C13_Witness ==
    /\ evaluated = <<FALSE>>
    /\ \E s \in Sources : videoStreams[s].isStreaming

\* The step arms a settle timeout whose callback sends the start message.
ArmsStartMessage ==
    \E i \in (Len(settleTimeouts) + 1)..Len(settleTimeouts') :
        /\ validateScreenSharingState(settleTimeouts'[i].c)
        /\ CanSend(settleTimeouts'[i].c)

\* C14: when start() of a capture source rejects, activeVideoStream and
\* videoStream are unchanged, start() is not called again, and no message
\* is sent as a consequence: the step sends nothing and arms no timer
\* whose callback sends.
C14_RejectedStartSendsNothing ==
    [][(\E s \in Sources : StartRejects(s)) =>
          /\ activeVideoStream' = activeVideoStream
          /\ videoStream' = videoStream
          /\ \A s \in Sources : pendingStarts'[s] <= pendingStarts[s]
          /\ emitted' = <<>>
          /\ ~ArmsStartMessage]_vars

\* The settle timeout that fires in this step was armed by a run of the
\* detection effect that has been torn down since: its captured values are
\* not those of the current run.
TornDownSettleFires ==
    /\ EmittedNext("settleTimeout")
    /\ settleTimeouts # <<>>
    /\ Head(settleTimeouts).c # closure

\* C15: once the detection effect has been torn down and its timers
\* recreated, no callback armed by the torn-down run dispatches a
\* notification, sends a message or writes wasScreenSharing.
C15_TornDownCallbacksAreSilent ==
    [][TornDownSettleFires =>
          /\ emitted' = <<"settleTimeout">>
          /\ wasScreenSharing' = wasScreenSharing]_vars

\* C16: lastUserSpeechTime never decreases.
C16_LastUserSpeechTimeMonotonic ==
    [][lastUserSpeechTime' >= lastUserSpeechTime]_vars

\* The timestamp of a speech start, kept after the user stopped speaking
\* and time went on.
C16_Witness ==
    /\ ~isUserSpeaking
    /\ lastUserSpeechTime >= PageLoadTime
    /\ now > lastUserSpeechTime

\* C17: lastUserSpeechTime is set to the current time exactly in the steps
\* in which isUserSpeaking turns from false to true, and these are input
\* volume samples; every other step (speaking -> not-speaking, samples
\* without a transition, output volume samples) leaves it unchanged.
C17_StampedOnSpeechStartOnly ==
    [][/\ lastUserSpeechTime' =
             IF ~isUserSpeaking /\ isUserSpeaking' THEN now
             ELSE lastUserSpeechTime
       /\ isUserSpeaking' # isUserSpeaking =>
             \E v \in VolumeSamples : InputVolume(v)
       /\ (\E v \in VolumeSamples : OutputVolume(v)) =>
             /\ lastUserSpeechTime' = lastUserSpeechTime
             /\ isUserSpeaking' = isUserSpeaking]_vars

\* A speech start stamped at the current time while the AI is speaking.
C17_Witness ==
    /\ isUserSpeaking
    /\ isAISpeaking
    /\ lastUserSpeechTime = now
    /\ now > PageLoadTime

\* The gate of the heartbeat over the speech state of the current render.
GateHolds ==
    /\ ~isUserSpeaking
    /\ ~isAISpeaking
    /\ now - lastUserSpeechTime > QuietWindow

\* The step is a heartbeat tick that sends n coaching messages and nothing
\* else, and queues nothing: no timeout is armed and the state is as before.
TickSends(n) ==
    /\ emitted' = <<"tickInterval">> \o [i \in 1..n |-> "heartbeat"]
    /\ settleTimeouts' = settleTimeouts
    /\ validationInterval' = validationInterval
    /\ Cur' = Cur

\* C18: at every heartbeat tick of an active session exactly one coaching
\* message is sent if the gate holds, and none, with nothing queued, if it
\* does not.
C18_OneMessageIffGate ==
    [][(EmittedNext("tickInterval") /\ wasScreenSharing) =>
          TickSends(IF GateHolds THEN 1 ELSE 0)]_vars

\* The step is a volume sample, of the input or of the output side.
VolumeSample ==
    \/ \E v \in VolumeSamples : InputVolume(v)
    \/ \E v \in VolumeSamples : OutputVolume(v)

\* C19: while the session stays active and neither the game, the
\* connection, the mute state nor the stream changes, the heartbeat keeps
\* its period: a change of isUserSpeaking, isAISpeaking or
\* lastUserSpeechTime between two ticks neither cancels nor postpones the
\* next tick.
C19_SpeechKeepsTheTick ==
    [][(VolumeSample /\ wasScreenSharing /\ wasScreenSharing') =>
          tickInterval' = tickInterval]_vars

\* The step starts a session: it dispatches screenSharingStarted or arms
\* the settle timeout that will.
StartsSession ==
    \/ EmittedNext("screenSharingStarted")
    \/ Len(settleTimeouts') > Len(settleTimeouts)

InconsistentSource ==
    /\ \E s \in Sources :
          videoStreams[s].isStreaming /\ videoStreams[s].stream = Null
    /\ ~validateScreenSharingState(Cur)

SendsTransitionMessage ==
    \/ EmittedNext("startMsg")
    \/ EmittedNext("stopMsg")
    \/ EmittedNext("forcedStopMsg")

\* The step records an edge: wasScreenSharing toggles, or is set and reset
\* within the step.
RecordsEdge ==
    \/ wasScreenSharing' # wasScreenSharing
    \/ EmittedNext("screenSharingStarted") /\ EmittedNext("screenSharingStopped")

\* C22: an edge recorded while the session is disconnected or muted sends
\* no message, and no message for an edge is sent later: a start or stop
\* message is sent only by the step that records its edge, and only if the
\* session is connected and not muted then.
C22_NoMessageForAMutedEdge ==
    [][/\ (RecordsEdge /\ ~(connected' /\ ~muted')) => ~SendsTransitionMessage
       /\ SendsTransitionMessage => RecordsEdge]_vars

\* C23: a coaching message is sent only when at least QuietWindow has
\* elapsed since the last moment at which isUserSpeaking was true: the user
\* is not speaking, and stopped speaking QuietWindow or more ago.
C23_QuietWindowAfterSpeechEnd ==
    Emitted("heartbeat") =>
        /\ ~isUserSpeaking
        /\ now - speechStopAt >= QuietWindow

\* A coaching message sent after the user spoke and fell silent.
C23_Witness ==
    /\ Emitted("heartbeat")
    /\ speechStopAt >= PageLoadTime
    /\ speechStopAt > speechStartAt

\* The session is active with a capture source streaming, nobody speaks and
\* no start() is in flight.
QuietSession ==
    /\ wasScreenSharing
    /\ ~NoSourceStreaming
    /\ ~isUserSpeaking
    /\ ~isAISpeaking
    /\ \A s \in Sources : pendingStarts[s] = 0

\* C24: if the session stays active with a capture source streaming,
\* nobody speaks and no input arrives, a coaching message is sent within
\* two heartbeat periods: from every such state with two periods left to
\* run, a heartbeat is sent unless the session stops being so or an input
\* event arrives.
C24_HeartbeatEventuallySent ==
    \A k \in 0..MaxEvents :
        (/\ QuietSession
         /\ events = k
         /\ now + 2 * HeartbeatPeriod <= PageLoadTime + LiveHorizon)
            ~> (Emitted("heartbeat") \/ ~QuietSession \/ events # k)

\* A coaching message sent at the second tick after the user spoke: the
\* first tick fell on the edge of the quiet window.
C24_Witness ==
    /\ Emitted("heartbeat")
    /\ QuietSession
    /\ lastUserSpeechTime >= PageLoadTime
    /\ now = lastUserSpeechTime + 2 * HeartbeatPeriod

\* Every changeStreams call has run to its end.
NoStartInFlight == \A s \in Sources : pendingStarts[s] = 0

\* C25: once every changeStreams call has completed, activeVideoStream is
\* set iff exactly one capture source is streaming and that source produced
\* the active stream.
C25_ActiveStreamMatchesSource ==
    NoStartInFlight =>
        (activeVideoStream # Null <=>
            \E s \in Sources :
                /\ videoStreams[s].isStreaming
                /\ activeVideoStream = Handle(s)
                /\ \A t \in Sources \ {s} : ~videoStreams[t].isStreaming)

\* The audio recorder is stopped: the session is disconnected or muted.
RecorderStopped == ~connected \/ muted

\* C26: while the audio recorder is stopped no step changes isUserSpeaking
\* or lastUserSpeechTime, and while it is stopped with isUserSpeaking true
\* no step sends a coaching message.
C26_SpeechStateFrozen ==
    [][RecorderStopped =>
          /\ isUserSpeaking' = isUserSpeaking
          /\ lastUserSpeechTime' = lastUserSpeechTime
          /\ (isUserSpeaking => ~EmittedNext("heartbeat"))]_vars

\* A tick of an active session that finds the recorder muted and the user
\* still marked as speaking, the quiet window long over.
C26_Witness ==
    /\ Emitted("tickInterval")
    /\ RecorderStopped
    /\ isUserSpeaking
    /\ wasScreenSharing
    /\ ~NoSourceStreaming
    /\ now - lastUserSpeechTime > QuietWindow

\* C27: whenever evaluate is true or the session is active a game is
\* selected, and every armed start message and every registered heartbeat
\* was created in a render with a game selected.
C27_GameSelectedWhenActive ==
    /\ (validateScreenSharingState(Cur) \/ wasScreenSharing)
          => activeGame # Null
    /\ \A i \in 1..Len(settleTimeouts) :
          settleTimeouts[i].c.activeGame # Null
    /\ tickInterval # {} => closure.activeGame # Null

\* The start message of a session is sent, and the heartbeat is registered.
C27_Witness ==
    /\ Emitted("startMsg")
    /\ wasScreenSharing
    /\ validateScreenSharingState(Cur)
    /\ tickInterval # {}
    /\ activeGame # Null

=============================================================================
